---- MODULE Spec2Model ----
(***************************************************************************)
(* Pycons: icon identifier resolution.                                     *)
(*                                                                         *)
(*   SplitSpec  the Iconify query wrapper (src/src/pycons/iconify/api.py): *)
(*              _split_prefix_name and the query functions svg, css and    *)
(*              icon_data that call it before issuing their GET.           *)
(*   Spec       the registry resolution flow over the providers of         *)
(*              src/src/pycons/providers.py and the cached fetch_url of    *)
(*              src/src/pycons/utils.py.                                   *)
(*   RaceSpec   the same flow for the identifiers that resolve, with one   *)
(*              more resolution, so that a third can follow two that       *)
(*              overlap.                                                   *)
(*                                                                         *)
(*   MapSpec    process_mapping of every provider class and                *)
(*              extract_unicode_from_css (src/src/pycons/utils.py), each   *)
(*              applied to one raw mapping.                                *)
(*                                                                         *)
(* A Python str is a sequence of one-character strings, a tuple of str is  *)
(* a sequence of such sequences.                                           *)
(***************************************************************************)
EXTENDS Integers, Sequences, FiniteSets, TLC

VARIABLES
    \* ---- Iconify query wrapper (api.py) ----
    qfn,        \* the query function last called: "none", "svg", "css", "icon_data"
    qkey,       \* the *key / *keys argument tuple of the call
    qres,       \* what the call did: [raised |-> TRUE, exc |-> ...] or [raised |-> FALSE]
    qreqs,      \* the HTTP requests the call issued, in order
    \* ---- the world outside ----
    upstream,   \* per upstream repository: its latest released revision
    \* ---- the cache directory (_CACHE_DIR), shared by all resolutions ----
    httpCache,  \* hishel's storage: URL -> stored response body (a partial function)
    slot,       \* per provider NAME: NoSlot, or its font file, mapping table and version
    \* ---- one record per running resolution (a get_icon coroutine) ----
    pc,         \* "idle", "version", "font", "mapping" (awaiting that fetch), "done"
    loc,        \* its local variables
    net,        \* network requests it issued, per kind of URL
    fetched,    \* how its last fetch_url ended: "none", "ok", "failed"
    result,     \* NoResult, or what the call returned or raised
    \* ---- bookkeeping ----
    hist,       \* per icon id: the Icon of its last successful resolve that started
                \* after the last expiry of a cache entry
    prior,      \* per resolution: hist of its icon id when it started
    calls,      \* resolutions started
    expiries,   \* cache entries expired
    overlapped, \* a resolution was started while another awaited a fetch
    \* ---- one call of a provider's process_mapping (providers.py) ----
    mfn,        \* the NAME of the provider whose process_mapping was called, or "none"
    mdata,      \* the raw mapping handed to it
    mres        \* what the call did: it raised, or the table it returned

qvars == <<qfn, qkey, qres, qreqs>>

rvars == <<upstream, httpCache, slot, pc, loc, net, fetched, result, hist, prior,
           calls, expiries, overlapped>>

mvars == <<mfn, mdata, mres>>

vars == <<qfn, qkey, qres, qreqs, upstream, httpCache, slot, pc, loc, net, fetched,
          result, hist, prior, calls, expiries, overlapped, mfn, mdata, mres>>

(***************************************************************************)
(* Bounds                                                                  *)
(***************************************************************************)
\* longest string of a one-string key
MaxStrLen == 4
\* longest string of a key of several strings
MaxArgLen == 1
\* most strings in a key
MaxArgs == 3
\* most resolutions started in one behaviour
MaxCalls == 2
\* the same, where a third resolution has to follow two that overlap (RaceSpec)
MaxRaceCalls == 3
\* most events outside the program (upstream releases, cache entries that
\* expire) in one behaviour
MaxEvents == 1
\* most lines of a materialdesignicons.css
MaxMdiLines == 4
\* most lines of a remixicon.css
MaxRiLines == 2
\* most icons of a Phosphor.json
MaxIcons == 2

(***************************************************************************)
(* Strings                                                                 *)
(***************************************************************************)
Chars == {"m", "a", ":"}

RECURSIVE StringsUpTo(_)
StringsUpTo(n) ==
    IF n = 0 THEN {<<>>}
    ELSE LET shorter == StringsUpTo(n - 1)
         IN  shorter \cup {Append(s, c) : s \in {t \in shorter : Len(t) = n - 1}, c \in Chars}

RECURSIVE TuplesOfLen(_, _)
TuplesOfLen(S, n) ==
    IF n = 0 THEN {<<>>}
    ELSE {Append(t, s) : t \in TuplesOfLen(S, n - 1), s \in S}

\* c in s
Contains(s, c) == \E i \in 1..Len(s) : s[i] = c

\* s.index(c), 1-based; 0 when c is not in s
IndexOf(s, c) ==
    IF Contains(s, c)
    THEN CHOOSE i \in 1..Len(s) : s[i] = c /\ \A j \in 1..(i - 1) : s[j] # c
    ELSE 0

\* s.split(c, maxsplit=1) for a one-character separator c: one part when c is
\* not in s, else the text before the first c and all the text after it
SplitOnce(s, c) ==
    IF ~Contains(s, c) THEN <<s>>
    ELSE LET i == IndexOf(s, c)
         IN  <<SubSeq(s, 1, i - 1), SubSeq(s, i + 1, Len(s))>>

\* the number of occurrences of c in s
CountOf(s, c) == Cardinality({i \in 1..Len(s) : s[i] = c})

(***************************************************************************)
(* api.py: _split_prefix_name                                              *)
(***************************************************************************)
ValueError == "ValueError"

Raise(exc) == [raised |-> TRUE, exc |-> exc]

Return(prefix, name) == [raised |-> FALSE, prefix |-> prefix, name |-> name]

\* mutant: the check for ':' in a one-string key is dropped, the whole string
\* is taken as the prefix
SplitPrefixNameNoColonCheck(key, allow_many) ==
    IF Len(key) = 0 THEN Raise(ValueError)
    ELSE IF Len(key) = 1
    THEN LET parts == SplitOnce(key[1], ":")
             name == IF Len(parts) = 2 THEN parts[2] ELSE <<>>
         IN  IF allow_many THEN Return(parts[1], <<name>>) ELSE Return(parts[1], name)
    ELSE IF ~allow_many
    THEN IF Len(key) - 1 > 1 THEN Raise(ValueError) ELSE Return(key[1], key[2])
    ELSE Return(key[1], Tail(key))

\* mutant: the first ':' is swallowed together with the text up to the last
\* ':' (rsplit instead of split)
SplitPrefixNameRsplit(key, allow_many) ==
    IF Len(key) = 0 THEN Raise(ValueError)
    ELSE IF Len(key) = 1
    THEN IF ~Contains(key[1], ":") THEN Raise(ValueError)
         ELSE LET s == key[1]
                  i == CHOOSE k \in 1..Len(s) :
                           s[k] = ":" /\ \A j \in (k + 1)..Len(s) : s[j] # ":"
                  prefix == SubSeq(s, 1, i - 1)
                  name == SubSeq(s, i + 1, Len(s))
              IN  IF allow_many THEN Return(prefix, <<name>>) ELSE Return(prefix, name)
    ELSE IF ~allow_many
    THEN IF Len(key) - 1 > 1 THEN Raise(ValueError) ELSE Return(key[1], key[2])
    ELSE Return(key[1], Tail(key))

\* mutant: a single-result call accepts any number of strings and keeps the
\* first name
SplitPrefixNameNoArity(key, allow_many) ==
    IF Len(key) = 0 THEN Raise(ValueError)
    ELSE IF Len(key) = 1
    THEN IF ~Contains(key[1], ":") THEN Raise(ValueError)
         ELSE LET parts == SplitOnce(key[1], ":")
              IN  IF allow_many THEN Return(parts[1], <<parts[2]>>)
                  ELSE Return(parts[1], parts[2])
    ELSE IF ~allow_many
    THEN Return(key[1], key[2])
    ELSE Return(key[1], Tail(key))

\* _split_prefix_name(key, allow_many)
SplitPrefixName(key, allow_many) ==
    IF Len(key) = 0                                  \* if not key
    THEN Raise(ValueError)
    ELSE IF Len(key) = 1
    THEN IF ~Contains(key[1], ":")                   \* if ":" not in key[0]
         THEN Raise(ValueError)
         ELSE LET parts == SplitOnce(key[1], ":")    \* key[0].split(":", maxsplit=1)
              IN  IF allow_many THEN Return(parts[1], <<parts[2]>>)
                  ELSE Return(parts[1], parts[2])
    ELSE IF ~allow_many                              \* prefix, *rest = key
    THEN IF Len(key) - 1 > 1                         \* if len(rest) > 1
         THEN Raise(ValueError)
         ELSE Return(key[1], key[2])                 \* return prefix, rest[0]
    ELSE Return(key[1], Tail(key))                   \* return prefix, tuple(rest)

(***************************************************************************)
(* Text constants of the registry flow                                     *)
(***************************************************************************)
s_fa == <<"f", "a">>
s_fas == <<"f", "a", "s">>
s_fab == <<"f", "a", "b">>
s_mdi == <<"m", "d", "i">>
s_msc == <<"m", "s", "c">>
s_ph == <<"p", "h">>
s_ri == <<"r", "i">>
s_heart == <<"h", "e", "a", "r", "t">>
s_github == <<"g", "i", "t", "h", "u", "b">>
s_home == <<"h", "o", "m", "e">>
s_house == <<"h", "o", "u", "s", "e">>
s_home_line == <<"h", "o", "m", "e", "-", "l", "i", "n", "e">>

\* prefix + "." + name
Dotted(prefix, name) == prefix \o <<".">> \o name

(***************************************************************************)
(* The upstream repositories: each has a latest released revision, and     *)
(* serves its files at a tag (immutable) or at master (the latest).        *)
(***************************************************************************)
Repos == {"Font-Awesome", "MaterialDesign-Webfont", "vscode-codicons", "phosphor-web",
          "RemixIcon"}

RECURSIVE SumOver(_, _)
SumOver(f, S) ==
    IF S = {} THEN 0
    ELSE LET x == CHOOSE y \in S : TRUE IN f[x] + SumOver(f, S \ {x})

\* The icons of a repository's mapping file at a revision: name, code point,
\* and (Font Awesome) the styles the icon comes in.  Code points move with the
\* revision, so that files of different revisions differ.
UpstreamIcons(repo, rev) ==
    CASE repo = "Font-Awesome" ->
            {[name |-> s_heart, code |-> 61444 + rev, styles |-> {"solid", "regular"}],
             [name |-> s_github, code |-> 61595 + rev, styles |-> {"brands"}]}
      [] repo = "MaterialDesign-Webfont" ->
            {[name |-> s_home, code |-> 983772 + rev, styles |-> {}]}
      [] repo = "vscode-codicons" ->
            {[name |-> s_home, code |-> 60000 + rev, styles |-> {}]}
      [] repo = "phosphor-web" ->
            {[name |-> s_house, code |-> 58000 + rev, styles |-> {}]}
      [] repo = "RemixIcon" ->
            {[name |-> s_home_line, code |-> 59992 + rev, styles |-> {}]}

(***************************************************************************)
(* providers.py: the providers.  A URL is the record of its parts; "ref"   *)
(* is the part of the path that names a tag or a branch.                   *)
(***************************************************************************)
\* A version or ref is a pair: a release tag, or the branch master.
Tag(rev) == <<"tag", rev>>

Master == <<"master", 0>>

NoVersion == <<"none", 0>>

Url(site, repo, ref, file) == [site |-> site, repo |-> repo, ref |-> ref, file |-> file]

Provider(name, prefix, repo) == [NAME |-> name, PREFIX |-> prefix, repo |-> repo]

FontAwesomeRegularProvider == Provider("fontawesome-regular", s_fa, "Font-Awesome")
FontAwesomeSolidProvider == Provider("fontawesome-solid", s_fas, "Font-Awesome")
FontAwesomeBrandsProvider == Provider("fontawesome-brands", s_fab, "Font-Awesome")
MaterialDesignProvider == Provider("material", s_mdi, "MaterialDesign-Webfont")
CodiconsProvider == Provider("codicons", s_msc, "vscode-codicons")
PhosphorProvider == Provider("phosphor", s_ph, "phosphor-web")
RemixProvider == Provider("remix", s_ri, "RemixIcon")

\* mutant: a provider is registered under the prefix "zz" as well
PROVIDERS_WithZz ==
    {FontAwesomeRegularProvider, FontAwesomeSolidProvider, FontAwesomeBrandsProvider,
     MaterialDesignProvider, CodiconsProvider, PhosphorProvider, RemixProvider,
     Provider("zz", <<"z", "z">>, "RemixIcon")}

PROVIDERS_TwoFa ==
    {FontAwesomeRegularProvider, FontAwesomeSolidProvider, FontAwesomeBrandsProvider,
     MaterialDesignProvider, CodiconsProvider, PhosphorProvider, RemixProvider,
     Provider("fontawesome-duotone", s_fa, "Font-Awesome")}

\* PROVIDERS: the registered providers (the dict's values; its keys are their NAMEs)
PROVIDERS ==
    {FontAwesomeRegularProvider, FontAwesomeSolidProvider, FontAwesomeBrandsProvider,
     MaterialDesignProvider, CodiconsProvider, PhosphorProvider, RemixProvider}

ProviderNames == {p.NAME : p \in PROVIDERS}

ByName(name) == CHOOSE p \in PROVIDERS : p.NAME = name

\* get_latest_version: the URL it fetches, or NoUrl where it fetches nothing
\* and returns "master" (Phosphor, Remix)
NoUrl == [site |-> "none"]

VersionUrl(p) ==
    CASE p.repo = "Font-Awesome" ->          \* FontAwesomeBase.GITHUB_API
            Url("api.github.com", p.repo, <<"releases/latest", 0>>, "")
      [] p.repo = "MaterialDesign-Webfont" -> \* MaterialDesignProvider.VERSION_URL
            Url("api.github.com", p.repo, <<"tags", 0>>, "")
      [] p.repo = "vscode-codicons" ->        \* CodiconsProvider.VERSION_URL
            Url("api.github.com", p.repo, <<"releases/latest", 0>>, "")
      [] OTHER -> NoUrl                       \* return "master"

\* get_latest_version, after its fetch: the tag name of the response
\* (release_info["tag_name"], tags[0]["name"])
VersionOf(data) == Tag(data.rev)

\* get_download_urls(version) -> (ttf_url, mapping_url)
get_download_urls(p, version) ==
    CASE p.NAME = "fontawesome-regular" ->
            <<Url("raw.githubusercontent.com", p.repo, version, "webfonts/fa-regular-400.ttf"),
              Url("raw.githubusercontent.com", p.repo, version, "metadata/icons.json")>>
      [] p.NAME = "fontawesome-solid" ->
            <<Url("raw.githubusercontent.com", p.repo, version, "webfonts/fa-solid-900.ttf"),
              Url("raw.githubusercontent.com", p.repo, version, "metadata/icons.json")>>
      [] p.NAME = "fontawesome-brands" ->
            <<Url("raw.githubusercontent.com", p.repo, version, "webfonts/fa-brands-400.ttf"),
              Url("raw.githubusercontent.com", p.repo, version, "metadata/icons.json")>>
      [] p.NAME = "material" ->               \* BASE_URL ends in /master: version unused
            <<Url("raw.githubusercontent.com", p.repo, Master,
                  "fonts/materialdesignicons-webfont.ttf"),
              Url("raw.githubusercontent.com", p.repo, Master,
                  "css/materialdesignicons.css")>>
      [] p.NAME = "codicons" ->
            <<Url("github.com", p.repo, version, "codicon.ttf"),
              Url("raw.githubusercontent.com", p.repo, version, "src/template/mapping.json")>>
      [] p.NAME = "phosphor" ->
            <<Url("raw.githubusercontent.com", p.repo, version, "src/regular/Phosphor.ttf"),
              Url("raw.githubusercontent.com", p.repo, version, "src/Phosphor.json")>>
      [] OTHER ->                             \* Remix (and no other): master, version unused
            <<Url("raw.githubusercontent.com", p.repo, Master, "fonts/remixicon.ttf"),
              Url("raw.githubusercontent.com", p.repo, Master, "fonts/remixicon.css")>>

\* A response body is named by what it is: the file of a repository at a revision.
Body(url, rev) == [repo |-> url.repo, file |-> url.file, rev |-> rev]

\* the name -> code point table of the icons that pass a filter
TableOf(icons) == [n \in {e.name : e \in icons} |-> (CHOOSE e \in icons : e.name = n).code]

\* process_mapping(mapping_data), for well-formed upstream files: the Font
\* Awesome providers keep the icons of their own style, the others keep all
process_mapping(p, mapping_data) ==
    LET data == UpstreamIcons(mapping_data.repo, mapping_data.rev)
    IN  CASE p.NAME = "fontawesome-regular" ->
                TableOf({e \in data : "regular" \in e.styles})
          [] p.NAME = "fontawesome-solid" ->
                TableOf({e \in data : "solid" \in e.styles})
          [] p.NAME = "fontawesome-brands" ->
                TableOf({e \in data : "brands" \in e.styles})
          [] OTHER -> TableOf(data)

(***************************************************************************)
(* utils.py: fetch_url.  hishel stores the 200 responses by URL and serves *)
(* a stored response without a request; anything else goes to the network  *)
(* once, and a response that is not a 2xx, or none at all, raises.         *)
(***************************************************************************)
NoBody == [file |-> "none"]

\* how a request that went out can end
Outcomes == {"ok", "http_error", "transport_error"}

Failures == {"http_error", "transport_error"}

\* mutant: the storage never serves a stored response
fetch_url_lookup_Miss(cache, url) == NoBody

\* fetch_url, as far as its first suspension: the stored response of the URL,
\* or NoBody when the request has to go out
fetch_url_lookup(cache, url) == IF url \in DOMAIN cache THEN cache[url] ELSE NoBody

\* mutant: a failed request is sent a second time before fetch_url gives up
fetch_url_response_Retry(cache, url, cached, outcome, body) ==
    IF cached # NoBody
    THEN [raised |-> FALSE, content |-> cached, requests |-> 0, cache |-> cache]
    ELSE IF outcome = "ok"
    THEN [raised |-> FALSE, content |-> body, requests |-> 1,
          cache |-> (url :> body) @@ cache]
    ELSE [raised |-> TRUE, content |-> NoBody, requests |-> 2, cache |-> cache]

\* mutant: every response is stored, whatever its status
\* (cacheable_status_codes not restricted to 200)
fetch_url_response_StoreAll(cache, url, cached, outcome, body) ==
    IF cached # NoBody
    THEN [raised |-> FALSE, content |-> cached, requests |-> 0, cache |-> cache]
    ELSE IF outcome = "ok"
    THEN [raised |-> FALSE, content |-> body, requests |-> 1,
          cache |-> (url :> body) @@ cache]
    ELSE [raised |-> TRUE, content |-> NoBody, requests |-> 1,
          cache |-> IF outcome = "http_error" THEN (url :> body) @@ cache ELSE cache]

\* fetch_url, from its first suspension on: `cached` is what the lookup found,
\* `outcome` and `body` what the network answers if it is asked
fetch_url_response(cache, url, cached, outcome, body) ==
    IF cached # NoBody                      \* served from the storage
    THEN [raised |-> FALSE, content |-> cached, requests |-> 0, cache |-> cache]
    ELSE IF outcome = "ok"                  \* 200: stored, returned
    THEN [raised |-> FALSE, content |-> body, requests |-> 1,
          cache |-> (url :> body) @@ cache]
    ELSE                                    \* raise_for_status, or client.get raised
         [raised |-> TRUE, content |-> NoBody, requests |-> 1, cache |-> cache]

(***************************************************************************)
(* The registry: resolve(icon_id) -> Icon                                  *)
(***************************************************************************)
Procs == {"r1", "r2"}

\* the positions at which a resolution awaits a fetch
Waiting == {"version", "font", "mapping"}

NoSlot == [version |-> NoVersion]

NoResult == [ok |-> FALSE, error |-> "none"]

NoIcon == [ttf_path |-> "none"]

InvalidIdentifier == "InvalidIdentifier"
UnknownPrefix == "UnknownPrefix"
UnknownIconName == "UnknownIconName"
UpstreamUnavailable == "UpstreamUnavailable"

Fail(error) == [ok |-> FALSE, error |-> error]

Ok(icon) == [ok |-> TRUE, icon |-> icon]

\* chr(code): the string of the one character with that code point
Chr(code) == <<code>>

\* Icon{character, ttf_path}: the path is that of the provider's font file
Icon(code, name) == [character |-> Chr(code), ttf_path |-> name]

\* epoch: the number of expiries when the resolution started
NoCall == [icon_id |-> <<>>, provider |-> "none", name |-> <<>>, latest |-> NoVersion,
           ttf_data |-> NoBody, url |-> NoUrl, cached |-> NoBody, rev0 |-> 0,
           epoch |-> 0]

ZeroNet == [version |-> 0, font |-> 0, mapping |-> 0]

NetTotal(r) == net[r].version + net[r].font + net[r].mapping

\* the identifiers callers resolve
IconIds ==
    {<<"n", "o", "s", "e", "p">>,                   \* no separator
     Dotted(<<"z", "z">>, <<"f", "o", "o">>),       \* zz.foo: no such provider
     Dotted(s_fa, <<"n", "o", "x">>),               \* fa.nox: no such icon
     Dotted(s_fa, s_heart),                         \* fa.heart
     Dotted(s_mdi, s_home),                         \* mdi.home
     Dotted(<<"m", "s", "o">>, s_home)}             \* mso.home, as in tests/test_icons.py

\* those of them that resolve to an Icon
RaceIds == {Dotted(s_fa, s_heart), Dotted(s_mdi, s_home)}

\* a later version than the recorded one
Newer(latest, recorded) ==
    /\ latest # recorded
    /\ (latest[1] = "tag" /\ recorded[1] = "tag") => latest[2] > recorded[2]

\* the revisions a request sent at revision rev0 may be served from
ServedRevs(url, rev0) ==
    IF url.site = "api.github.com" \/ url.ref = Master
    THEN rev0..upstream[url.repo]
    ELSE {url.ref[2]}

\* What a step leaves behind: the resolution's position, locals and result,
\* and the provider slots.  A resolution that has returned has no locals
\* left but its arguments.
Effect(p, l, res, s) ==
    [pc |-> p,
     loc |-> IF p = "done"
             THEN [NoCall EXCEPT !.icon_id = l.icon_id, !.provider = l.provider,
                                 !.name = l.name]
             ELSE l,
     result |-> res, slot |-> s]

\* await fetch_url(url): look the URL up, suspend
Await(kind, l, url) ==
    Effect(kind,
           LET cached == fetch_url_lookup(httpCache, url)
           IN  [l EXCEPT !.url = url, !.cached = cached,
                         !.rev0 = IF cached = NoBody THEN upstream[url.repo] ELSE 0],
           NoResult, slot)

\* (4), (5): look the bare name up in the provider's mapping table
Lookup(l, s) ==
    LET table == s[l.provider].table
    IN  Effect("done", l,
               IF l.name \in DOMAIN table
               THEN Ok(Icon(table[l.name], l.provider))
               ELSE Fail(UnknownIconName),
               s)

\* (3), once the latest version is known: fetch when the slot is missing or
\* the latest version is newer, else go on to the lookup
AfterVersion(l) ==
    IF slot[l.provider] = NoSlot \/ Newer(l.latest, slot[l.provider].version)
    THEN Await("font", l, get_download_urls(ByName(l.provider), l.latest)[1])
    ELSE Lookup(l, slot)

\* (1), (2), and (3) as far as its first fetch
Resolve(icon_id) ==
    LET parts == SplitOnce(icon_id, ".")
        l0 == [NoCall EXCEPT !.icon_id = icon_id, !.epoch = expiries]
    IN  IF Len(parts) = 1
        THEN Effect("done", l0, Fail(InvalidIdentifier), slot)
        ELSE IF ~\E p \in PROVIDERS : p.PREFIX = parts[1]
        THEN Effect("done", l0, Fail(UnknownPrefix), slot)
        ELSE LET p == CHOOSE q \in PROVIDERS : q.PREFIX = parts[1]
                 l1 == [l0 EXCEPT !.provider = p.NAME, !.name = parts[2]]
             IN  IF VersionUrl(p) # NoUrl
                 THEN Await("version", l1, VersionUrl(p))
                 ELSE AfterVersion([l1 EXCEPT !.latest = Master])

\* a fetch failed: the error goes to the caller
Failed(l) == Effect("done", l, Fail(UpstreamUnavailable), slot)

\* the version endpoint answered
VersionFetched(l, data) == AfterVersion([l EXCEPT !.latest = VersionOf(data)])

\* the font arrived: fetch the mapping
FontFetched(l, data) ==
    Await("mapping", [l EXCEPT !.ttf_data = data],
          get_download_urls(ByName(l.provider), l.latest)[2])

\* the mapping arrived: process it, persist font and table, look the name up
MappingFetched(l, data) ==
    LET table == process_mapping(ByName(l.provider), data)
        s == [slot EXCEPT ![l.provider] =
                 [version |-> l.latest, font |-> l.ttf_data, table |-> table,
                  mapping_rev |-> data.rev]]
    IN  Lookup(l, s)

\* the step's effect on the variables of resolution r
Apply(r, e) ==
    /\ pc' = [pc EXCEPT ![r] = e.pc]
    /\ loc' = [loc EXCEPT ![r] = e.loc]
    /\ result' = [result EXCEPT ![r] = e.result]
    /\ slot' = e.slot
    /\ hist' = IF e.pc = "done" /\ e.result.ok
                  /\ (pc[r] \in {"idle", "done"} \/ loc[r].epoch = expiries)
               THEN [hist EXCEPT ![e.loc.icon_id] = e.result.icon]
               ELSE hist

\* a caller starts a resolution of one of ids (get_icon builds a FontRegistry
\* and calls it), the limit-th of the behaviour at most; r2 is the
\* resolution that runs while r1 awaits a fetch
StartOf(r, ids, limit) ==
    \E icon_id \in ids :
        /\ pc[r] \in {"idle", "done"}
        /\ (r = "r2") => pc["r1"] \in Waiting
        /\ calls < limit
        /\ calls' = calls + 1
        /\ prior' = [prior EXCEPT ![r] = hist[icon_id]]
        /\ overlapped' = (overlapped \/ \E q \in Procs \ {r} : pc[q] \in Waiting)
        /\ net' = [net EXCEPT ![r] = ZeroNet]
        /\ fetched' = [fetched EXCEPT ![r] = "none"]
        /\ Apply(r, Resolve(icon_id))
        /\ UNCHANGED <<upstream, httpCache, expiries>>
        /\ UNCHANGED qvars
        /\ UNCHANGED mvars

Start(r) == StartOf(r, IconIds, MaxCalls)

\* the same, of the identifiers that resolve
RaceStart(r) == StartOf(r, RaceIds, MaxRaceCalls)

\* the fetch resolution r awaits ends
FetchDone(r) ==
    /\ pc[r] \in Waiting
    /\ \E outcome \in Outcomes :
      \E rev \in (IF loc[r].cached = NoBody
                   THEN ServedRevs(loc[r].url, loc[r].rev0) ELSE {0}) :
        /\ LET l == loc[r]
               f == fetch_url_response(httpCache, l.url, l.cached, outcome, Body(l.url, rev))
           IN  /\ httpCache' = f.cache
               /\ net' = [net EXCEPT ![r][pc[r]] = @ + f.requests]
               /\ fetched' = [fetched EXCEPT ![r] = IF f.raised THEN "failed" ELSE "ok"]
               /\ Apply(r, IF f.raised THEN Failed(l)
                           ELSE IF pc[r] = "version" THEN VersionFetched(l, f.content)
                           ELSE IF pc[r] = "font" THEN FontFetched(l, f.content)
                           ELSE MappingFetched(l, f.content))
        /\ UNCHANGED <<upstream, prior, calls, expiries, overlapped>>
        /\ UNCHANGED qvars
        /\ UNCHANGED mvars

\* the releases and expiries so far
Events == SumOver(upstream, Repos) - Cardinality(Repos) + expiries

\* the repositories of the providers that IconIds address
ResolvedRepos ==
    {p.repo : p \in {q \in PROVIDERS : \E i \in IconIds : SplitOnce(i, ".")[1] = q.PREFIX}}

\* an upstream repository releases a new revision (a repository no
\* resolution reads is left out: its releases change nothing)
Release ==
    \E repo \in ResolvedRepos :
        /\ Events < MaxEvents
        /\ upstream' = [upstream EXCEPT ![repo] = @ + 1]
        /\ UNCHANGED <<httpCache, slot, pc, loc, net, fetched, result, hist, prior, calls,
                       expiries, overlapped>>
        /\ UNCHANGED qvars
        /\ UNCHANGED mvars

\* a stored response outlives _CACHE_TIMEOUT and is dropped
Expire ==
    \E url \in DOMAIN httpCache :
        /\ Events < MaxEvents
        /\ expiries' = expiries + 1
        /\ httpCache' = [u \in DOMAIN httpCache \ {url} |-> httpCache[u]]
        /\ hist' = [i \in IconIds |-> NoIcon]
        /\ prior' = [r \in Procs |-> NoIcon]
        /\ UNCHANGED <<upstream, slot, pc, loc, net, fetched, result, calls, overlapped>>
        /\ UNCHANGED qvars
        /\ UNCHANGED mvars

RInit ==
    /\ upstream = [repo \in Repos |-> 1]
    /\ httpCache = <<>>
    /\ slot = [n \in ProviderNames |-> NoSlot]
    /\ pc = [r \in Procs |-> "idle"]
    /\ loc = [r \in Procs |-> NoCall]
    /\ net = [r \in Procs |-> ZeroNet]
    /\ fetched = [r \in Procs |-> "none"]
    /\ result = [r \in Procs |-> NoResult]
    /\ hist = [i \in IconIds |-> NoIcon]
    /\ prior = [r \in Procs |-> NoIcon]
    /\ calls = 0
    /\ expiries = 0
    /\ overlapped = FALSE

\* no process_mapping call is under way
MIdle ==
    /\ mfn = "none"
    /\ mdata = [format |-> "none"]
    /\ mres = [raised |-> FALSE, table |-> <<>>]

(***************************************************************************)
(* api.py: the query functions.  Each splits its key first; only when that *)
(* returns does it build its URL and issue one GET.                        *)
(***************************************************************************)
Keys ==
    {<<>>}
    \cup {<<s>> : s \in StringsUpTo(MaxStrLen)}
    \cup UNION {TuplesOfLen(StringsUpTo(MaxArgLen), n) : n \in 2..MaxArgs}

\* f"{ROOT}/{prefix}/{name}.svg"
SvgUrl(prefix, name) == [endpoint |-> "svg", prefix |-> prefix, icons |-> <<name>>]

\* f"{ROOT}/{prefix}.css?icons={','.join(icons)}"
CssUrl(prefix, icons) == [endpoint |-> "css", prefix |-> prefix, icons |-> icons]

\* f"{ROOT}/{prefix}.json?icons={','.join(names)}"
JsonUrl(prefix, names) == [endpoint |-> "json", prefix |-> prefix, icons |-> names]

\* svg(*key): prefix, name = _split_prefix_name(key), then one GET
svg ==
    LET r == SplitPrefixName(qkey, FALSE)
    IN  /\ qfn = "none"
        /\ qfn' = "svg"
        /\ qres' = r
        /\ qreqs' = IF r.raised THEN <<>> ELSE <<SvgUrl(r.prefix, r.name)>>
        /\ UNCHANGED qkey
        /\ UNCHANGED rvars
        /\ UNCHANGED mvars

\* css(*keys): prefix, icons = _split_prefix_name(keys, allow_many=True), then one GET
css ==
    LET r == SplitPrefixName(qkey, TRUE)
    IN  /\ qfn = "none"
        /\ qfn' = "css"
        /\ qres' = r
        /\ qreqs' = IF r.raised THEN <<>> ELSE <<CssUrl(r.prefix, r.name)>>
        /\ UNCHANGED qkey
        /\ UNCHANGED rvars
        /\ UNCHANGED mvars

\* icon_data(*keys): prefix, names = _split_prefix_name(keys, allow_many=True), then one GET
icon_data ==
    LET r == SplitPrefixName(qkey, TRUE)
    IN  /\ qfn = "none"
        /\ qfn' = "icon_data"
        /\ qres' = r
        /\ qreqs' = IF r.raised THEN <<>> ELSE <<JsonUrl(r.prefix, r.name)>>
        /\ UNCHANGED qkey
        /\ UNCHANGED rvars
        /\ UNCHANGED mvars

QInit ==
    /\ qfn = "none"
    /\ qkey = <<>>
    /\ qres = [raised |-> FALSE]
    /\ qreqs = <<>>

\* a caller is about to call one query function, once, with some key
SplitInit ==
    /\ qfn = "none"
    /\ qkey \in Keys
    /\ qres = [raised |-> FALSE]
    /\ qreqs = <<>>
    /\ RInit
    /\ MIdle

SplitNext == svg \/ css \/ icon_data

SplitSpec == SplitInit /\ [][SplitNext]_vars

Init == QInit /\ RInit /\ MIdle

Next ==
    \/ \E r \in Procs : Start(r)
    \/ \E r \in Procs : FetchDone(r)
    \/ Release
    \/ Expire

Spec == Init /\ [][Next]_vars

\* the resolutions of the identifiers that resolve, one more of them
RaceNext ==
    \/ \E r \in Procs : RaceStart(r)
    \/ \E r \in Procs : FetchDone(r)
    \/ Release
    \/ Expire

RaceSpec == Init /\ [][RaceNext]_vars

\* allow_many of the call the state records
AllowMany == qfn \in {"css", "icon_data"}

Called == qfn # "none"

(***************************************************************************)
(* Claims about _split_prefix_name and the query functions (SplitSpec)     *)
(***************************************************************************)
\* the key p + ":" + n as one string
Joined(p, n) == p \o <<":">> \o n

\* what both forms of the key (p, n) are to give in the mode of the call
BothFormsGive(p, n) == IF AllowMany THEN Return(p, <<n>>) ELSE Return(p, n)

\* C7 (original statement): for every prefix p and name n, the one-string key
\* p + ":" + n and the two-string key (p, n) split to the same result, (p, n)
\* in single-result mode and (p, (n,)) in multi-result mode.
C7_FormsAgreeAnyPrefix ==
    (Called /\ Len(qkey) = 2) =>
        /\ qres = BothFormsGive(qkey[1], qkey[2])
        /\ SplitPrefixName(<<Joined(qkey[1], qkey[2])>>, AllowMany) = qres

\* C7 (amended): for every prefix p that contains no ':' and every name n, the
\* one-string key p + ":" + n and the two-string key (p, n) split to the same
\* result, (p, n) in single-result mode and (p, (n,)) in multi-result mode.
\* Checked from both sides: on a call with the two-string key, and on a call
\* with a one-string key, whose text before its first ':' is such a prefix.
C7_FormsAgree ==
    /\ (Called /\ Len(qkey) = 2 /\ ~Contains(qkey[1], ":")) =>
           /\ qres = BothFormsGive(qkey[1], qkey[2])
           /\ SplitPrefixName(<<Joined(qkey[1], qkey[2])>>, AllowMany) = qres
    /\ (Called /\ Len(qkey) = 1 /\ Contains(qkey[1], ":")) =>
           LET i == IndexOf(qkey[1], ":")
               p == SubSeq(qkey[1], 1, i - 1)
               n == SubSeq(qkey[1], i + 1, Len(qkey[1]))
           IN  /\ qres = BothFormsGive(p, n)
               /\ SplitPrefixName(<<p, n>>, AllowMany) = qres

\* C7 witness: svg("m:a:") was called, a one-string key whose name holds a ':'
C7_Witness ==
    /\ qfn = "svg"
    /\ qkey = << <<"m", ":", "a", ":">> >>
    /\ qres = Return(<<"m">>, <<"a", ":">>)

\* C8: an empty key and a one-string key without ':' make _split_prefix_name
\* raise ValueError (InvalidIdentifier), and the query function that called it
\* issues no HTTP request.
C8_BadKeyRaisesBeforeRequest ==
    (Called /\ (Len(qkey) = 0 \/ (Len(qkey) = 1 /\ ~Contains(qkey[1], ":")))) =>
        /\ qres = Raise(ValueError)
        /\ qreqs = <<>>

\* C8 witness: svg("ma") was called and raised
C8_Witness ==
    /\ qfn = "svg"
    /\ qkey = << <<"m", "a">> >>
    /\ qres.raised
    /\ qreqs = <<>>

\* C9 (the claim): a one-string key with two or more ':' makes
\* _split_prefix_name raise ValueError (InvalidIdentifier) instead of splitting.
C9_TwoColonsRaise ==
    (Called /\ Len(qkey) = 1 /\ CountOf(qkey[1], ":") >= 2) => qres = Raise(ValueError)

\* C10: a key of two strings gives (prefix, name) in a single-result call, a
\* key of three or more raises ValueError there (and no request is issued); in
\* a multi-result call a key of N >= 2 strings never raises and gives the
\* first string and all the others in their order.
C10_MultiArgArity ==
    (Called /\ Len(qkey) >= 2) =>
        IF ~AllowMany
        THEN /\ Len(qkey) = 2 => qres = Return(qkey[1], qkey[2])
             /\ Len(qkey) >= 3 => (qres = Raise(ValueError) /\ qreqs = <<>>)
        ELSE /\ ~qres.raised
             /\ qres.prefix = qkey[1]
             /\ Len(qres.name) = Len(qkey) - 1
             /\ \A i \in 1..(Len(qkey) - 1) : qres.name[i] = qkey[i + 1]

\* C10 witness: css("m", "a", ":") was called and returned
C10_Witness ==
    /\ qfn = "css"
    /\ qkey = << <<"m">>, <<"a">>, <<":">> >>
    /\ ~qres.raised
    /\ Len(qreqs) = 1

(***************************************************************************)
(* Claims about the registry flow (Spec)                                   *)
(***************************************************************************)
id_nosep == <<"n", "o", "s", "e", "p">>
id_zz_foo == Dotted(<<"z", "z">>, <<"f", "o", "o">>)
id_fa_nox == Dotted(s_fa, <<"n", "o", "x">>)
id_fa_heart == Dotted(s_fa, s_heart)
id_mdi_home == Dotted(s_mdi, s_home)
id_mso_home == Dotted(<<"m", "s", "o">>, s_home)

\* the PREFIX of every provider class of providers.py
SourcePrefixes == {s_fa, s_fas, s_fab, s_mdi, s_msc, s_ph, s_ri}

\* resolution r made no fetch_url call at all
NoFetch(r) == NetTotal(r) = 0 /\ fetched[r] = "none"

\* C1: resolve checks in a fixed order.  An identifier without separator fails
\* with InvalidIdentifier; else a prefix without provider ('zz.foo') fails
\* with UnknownPrefix, both before any fetch; else, once the provider's mapping
\* is there, a name not in it ('fa.nox') fails with UnknownIconName.
C1_FailureOrder ==
    \A r \in Procs :
        pc[r] = "done" =>
            LET id == loc[r].icon_id
                parts == SplitOnce(id, ".")
            IN  /\ ~Contains(id, ".") => (result[r] = Fail(InvalidIdentifier) /\ NoFetch(r))
                /\ (Contains(id, ".") /\ parts[1] \notin SourcePrefixes) =>
                       (result[r] = Fail(UnknownPrefix) /\ NoFetch(r))
                /\ id = id_zz_foo => result[r] = Fail(UnknownPrefix)
                /\ (id = id_fa_nox /\ fetched[r] # "failed") =>
                       result[r] = Fail(UnknownIconName)
                /\ result[r] = Fail(UnknownIconName) =>
                       /\ Contains(id, ".")
                       /\ parts[1] \in SourcePrefixes
                       /\ slot[loc[r].provider] # NoSlot
                       /\ parts[2] \notin DOMAIN slot[loc[r].provider].table

\* C1 witness: 'fa.nox' was resolved as far as the lookup, which failed
C1_Witness ==
    \E r \in Procs :
        /\ pc[r] = "done"
        /\ loc[r].icon_id = id_fa_nox
        /\ result[r] = Fail(UnknownIconName)
        /\ net[r].mapping = 1

C3_AtMostOneFetch ==
    [][\A r \in Procs :
          /\ net'[r].version <= 1
          /\ net'[r].font <= 1
          /\ net'[r].mapping <= 1
          /\ (pc'[r] = "font" /\ pc[r] # "font") =>
                 \/ slot[loc'[r].provider] = NoSlot
                 \/ Newer(loc'[r].latest, slot[loc'[r].provider].version)
          /\ (pc'[r] = "mapping" /\ pc[r] # "mapping") => pc[r] = "font"]_vars

\* C3 witness: a resolution that fetched all three from the network returned
C3_Witness ==
    \E r \in Procs :
        /\ pc[r] = "done"
        /\ result[r].ok
        /\ net[r] = [version |-> 1, font |-> 1, mapping |-> 1]

\* C4 (the claim): every provider slot that is there holds a font file and a
\* mapping table of the same upstream revision.
C4_SlotOfOneRevision ==
    \A n \in ProviderNames :
        slot[n] # NoSlot => slot[n].font.rev = slot[n].mapping_rev

\* C5: a fetch that fails ends the resolution with UpstreamUnavailable, after
\* one request and no more, and leaves the stored responses and the provider
\* slots as they were.
C5_FailedFetchLeavesCache ==
    [][\A r \in Procs :
          (pc[r] \in Waiting /\ fetched'[r] = "failed") =>
              /\ pc'[r] = "done"
              /\ result'[r] = Fail(UpstreamUnavailable)
              /\ httpCache' = httpCache
              /\ slot' = slot
              /\ net'[r].version + net'[r].font + net'[r].mapping = NetTotal(r) + 1]_vars

\* C5 witness: the mapping fetch failed after the font had been fetched and
\* stored; the provider has no slot
C5_Witness ==
    \E r \in Procs :
        /\ pc[r] = "done"
        /\ fetched[r] = "failed"
        /\ result[r] = Fail(UpstreamUnavailable)
        /\ net[r].font = 1
        /\ net[r].mapping = 1
        /\ slot[loc[r].provider] = NoSlot

\* the identifiers tests/test_icons.py resolves through the registry
TestIds ==
    {Dotted(s_fa, s_heart), Dotted(s_fas, s_heart), Dotted(s_fab, s_github),
     Dotted(s_mdi, s_home), Dotted(<<"m", "s", "o">>, s_home),
     Dotted(<<"m", "s", "r">>, s_home), Dotted(<<"m", "s", "s">>, s_home),
     Dotted(s_msc, s_home), Dotted(s_ph, s_house), Dotted(s_ri, s_home_line),
     Dotted(<<"e", "l">>, s_home)}

\* C6 (the claim): every identifier the test suite resolves, when no fetch
\* fails, resolves to an Icon of one character whose font file is in the cache.
C6_TestIdsResolve ==
    \A r \in Procs :
        (pc[r] = "done" /\ loc[r].icon_id \in TestIds /\ fetched[r] # "failed") =>
            /\ result[r].ok
            /\ Len(result[r].icon.character) = 1
            /\ slot[result[r].icon.ttf_path] # NoSlot

(***************************************************************************)
(* Text: what str.lower, str.upper, in, str.split, str.replace,            *)
(* str.rstrip, hex and int(_, 16) do                                       *)
(***************************************************************************)
UpperChars == <<"A", "B", "C", "D", "E", "F", "G", "H", "I", "J", "K", "L", "M", "N", "O", "P", "Q", "R", "S", "T", "U", "V", "W", "X", "Y", "Z">>

LowerChars == <<"a", "b", "c", "d", "e", "f", "g", "h", "i", "j", "k", "l", "m", "n", "o", "p", "q", "r", "s", "t", "u", "v", "w", "x", "y", "z">>

\* c.lower()
LowerChar(c) ==
    IF \E i \in 1..Len(UpperChars) : UpperChars[i] = c
    THEN LowerChars[CHOOSE i \in 1..Len(UpperChars) : UpperChars[i] = c]
    ELSE c

\* c.upper()
UpperChar(c) ==
    IF \E i \in 1..Len(LowerChars) : LowerChars[i] = c
    THEN UpperChars[CHOOSE i \in 1..Len(LowerChars) : LowerChars[i] = c]
    ELSE c

\* s.lower()
Lower(s) == [i \in 1..Len(s) |-> LowerChar(s[i])]

\* s.upper()
Upper(s) == [i \in 1..Len(s) |-> UpperChar(s[i])]

\* sub occurs in s at position i
LitAt(s, i, sub) == i >= 1 /\ i + Len(sub) - 1 <= Len(s) /\ SubSeq(s, i, i + Len(sub) - 1) = sub

\* s.find(sub), 1-based; 0 when sub is not in s
Find(s, sub) ==
    LET hits == {i \in 1..Len(s) : LitAt(s, i, sub)}
    IN  IF hits = {} THEN 0 ELSE CHOOSE i \in hits : \A j \in hits : i <= j

\* sub in s
HasSub(s, sub) == Find(s, sub) # 0

\* s.split(sep): the parts of s between the occurrences of sep, left to right
RECURSIVE Split(_, _)
Split(s, sep) ==
    LET i == Find(s, sep)
    IN  IF i = 0 THEN <<s>>
        ELSE <<SubSeq(s, 1, i - 1)>> \o Split(SubSeq(s, i + Len(sep), Len(s)), sep)

\* s.replace(old, new)
RECURSIVE Replace(_, _, _)
Replace(s, old, new) ==
    LET i == Find(s, old)
    IN  IF i = 0 THEN s
        ELSE SubSeq(s, 1, i - 1) \o new \o Replace(SubSeq(s, i + Len(old), Len(s)), old, new)

\* s.rstrip(c)
RECURSIVE RStrip(_, _)
RStrip(s, c) ==
    IF Len(s) > 0 /\ s[Len(s)] = c THEN RStrip(SubSeq(s, 1, Len(s) - 1), c) ELSE s

\* "\n".join(lines)
RECURSIVE JoinLines(_)
JoinLines(lines) ==
    IF Len(lines) = 0 THEN <<>>
    ELSE IF Len(lines) = 1 THEN lines[1]
    ELSE lines[1] \o <<"\n">> \o JoinLines(Tail(lines))

HexChars == <<"0", "1", "2", "3", "4", "5", "6", "7", "8", "9", "a", "b", "c", "d", "e", "f">>

\* the digits of hex(n), n >= 0
RECURSIVE HexDigits(_)
HexDigits(n) ==
    IF n < 16 THEN <<HexChars[n + 1]>>
    ELSE Append(HexDigits(n \div 16), HexChars[(n % 16) + 1])

\* hex(n), n >= 0
hex(n) == <<"0", "x">> \o HexDigits(n)

\* the value of one hex digit, either case; -1 when c is none
HexValue(c) ==
    IF \E i \in 1..16 : HexChars[i] = LowerChar(c)
    THEN (CHOOSE i \in 1..16 : HexChars[i] = LowerChar(c)) - 1
    ELSE -1

RECURSIVE HexNumber(_)
HexNumber(s) ==
    IF Len(s) = 0 THEN 0
    ELSE 16 * HexNumber(SubSeq(s, 1, Len(s) - 1)) + HexValue(s[Len(s)])

\* int(s, 16): hex digits of either case after an optional "0x"; -1 stands for
\* the ValueError of any other text
int16(s) ==
    LET digits == IF LitAt(Lower(s), 1, <<"0", "x">>) THEN SubSeq(s, 3, Len(s)) ELSE s
    IN  IF Len(digits) > 0 /\ \A i \in 1..Len(digits) : HexValue(digits[i]) >= 0
        THEN HexNumber(digits)
        ELSE -1

(***************************************************************************)
(* The raw mapping files, as upstream writes them                          *)
(***************************************************************************)
\* the code points of the icons in them: 0xf004, 0xea60, 0xf0a
CodePoints == {61444, 60000, 3850}

\* the escape of a code point in a CSS file, "F004" or "ea60"
UpperEscape(code) == Upper(HexDigits(code))

LowerEscape(code) == HexDigits(code)

\* one line of a CSS file, and what upstream meant by it: kind is "selector"
\* (the first line of a rule), "content" (its declaration), "close", "rule"
\* (the line is one whole rule) or "other"; rules are the rules of the form
\* .ri-<name>:before { content: "\<hex>"; } written on the line, wherever
CssLine(text, kind, name, code) ==
    [text |-> text, kind |-> kind, name |-> name, code |-> code, rules |-> <<>>]

\* .mdi-<name>:before {
MdiSelector(name) ==
    CssLine(<<".", "m", "d", "i", "-">> \o name \o <<":", "b", "e", "f", "o", "r", "e", " ", "{">>, "selector", name, 0)

\* .mdi-<name>::before {       (materialdesignicons.css since its version 5)
MdiSelector2(name) ==
    CssLine(<<".", "m", "d", "i", "-">> \o name \o <<":", ":", "b", "e", "f", "o", "r", "e", " ", "{">>, "selector", name, 0)

\*   content: "\<escape>";
ContentLine(code) ==
    CssLine(<<" ", " ", "c", "o", "n", "t", "e", "n", "t", ":", " ", "\"", "\\">> \o UpperEscape(code) \o <<"\"", ";">>, "content", <<>>, code)

\*   content: '\<escape>';     (single quotes)
ContentLineSingleQuoted(code) ==
    CssLine(<<" ", " ", "c", "o", "n", "t", "e", "n", "t", ":", " ", "'", "\\">> \o UpperEscape(code) \o <<"'", ";">>, "other", <<>>, code)

\* }
CloseLine == CssLine(<<"}">>, "close", <<>>, 0)

\* .mdi-<name>:before { content: "\<escape>"; }
MdiRule(name, code) ==
    CssLine(<<".", "m", "d", "i", "-">> \o name \o <<":", "b", "e", "f", "o", "r", "e", " ", "{">> \o <<" ", "c", "o", "n", "t", "e", "n", "t", ":", " ", "\"", "\\">> \o UpperEscape(code)
            \o <<"\"", ";", " ", "}">>, "rule", name, code)

\* .ri-<name>:before { content: "\<escape>"; }
RiRule(name, escape, code) ==
    [CssLine(<<".", "r", "i", "-">> \o name \o <<":", "b", "e", "f", "o", "r", "e", " ", "{">> \o <<" ", "c", "o", "n", "t", "e", "n", "t", ":", " ", "\"", "\\">> \o escape \o <<"\"", ";", " ", "}">>,
             "rule", name, code)
        EXCEPT !.rules = <<[name |-> name, code |-> code]>>]

\* the same after a blank: a rule that does not start its line
RiRuleIndented(name, escape, code) ==
    [RiRule(name, escape, code) EXCEPT !.text = <<" ">> \o @, !.kind = "other"]

\* the same with single quotes
RiRuleSingleQuoted(name, escape, code) ==
    CssLine(<<".", "r", "i", "-">> \o name \o <<":", "b", "e", "f", "o", "r", "e", " ", "{">> \o <<" ", "c", "o", "n", "t", "e", "n", "t", ":", " ", "'", "\\">> \o escape \o <<"'", ";", " ", "}">>,
            "other", name, code)

\* two rules on one line
RiTwoRules(a, b) ==
    [CssLine(a.text \o <<" ">> \o b.text, "other", <<>>, 0) EXCEPT !.rules = a.rules \o b.rules]

s_a == <<"a">>
s_b == <<"b">>
s_Add == <<"A", "d", "d">>

\* the lines of a materialdesignicons.css
MdiLines ==
    {MdiSelector(s_a), MdiSelector2(s_b), ContentLine(61444), ContentLine(3850),
     ContentLineSingleQuoted(61444), CloseLine, MdiRule(s_home, 61444)}

\* the lines of a remixicon.css
RiLines ==
    {RiRule(s_home_line, LowerEscape(60000), 60000),    \* the fixture: "\ea60"
     RiRule(s_a, UpperEscape(61444), 61444),            \* "\F004"
     RiRule(s_b, UpperEscape(3850), 3850),              \* "\F0A"
     RiRuleIndented(s_a, LowerEscape(60000), 60000),
     RiRuleSingleQuoted(s_b, LowerEscape(60000), 60000),
     RiTwoRules(RiRule(s_a, LowerEscape(60000), 60000), RiRule(s_b, UpperEscape(3850), 3850)),
     CloseLine}

\* the files of up to n lines
RECURSIVE FilesUpTo(_, _)
FilesUpTo(lines, n) ==
    IF n = 0 THEN {<<>>}
    ELSE LET shorter == FilesUpTo(lines, n - 1)
         IN  shorter \cup {Append(f, l) : f \in {g \in shorter : Len(g) = n - 1}, l \in lines}

\* the text of the lines of a file: content.splitlines()
TextLines(file) == [i \in 1..Len(file) |-> file[i].text]

\* every function from a subset of names to values: a JSON object
JsonObjects(names, values) == UNION {[N -> values] : N \in SUBSET names}

\* icons.json of Font Awesome: name -> {"unicode": bare hex digits, "styles": [...]}
FaInfos ==
    {[unicode |-> HexDigits(61444), styles |-> {"regular", "solid"}],
     [unicode |-> HexDigits(3850), styles |-> {"brands"}]}

\* mapping.json of the codicons: name -> code point, a JSON number
CodiconData == JsonObjects({s_home, s_Add}, {61444, 60000})

\* Phosphor.json: iconSets[0].icons, each icon with its grid number and its tags
PhosphorIcons ==
    {[grid |-> 61444, tags |-> <<s_house>>], [grid |-> 3850, tags |-> <<s_home, s_Add>>]}

\* the raw mappings a process_mapping is called with
MappingData ==
    {[format |-> "icons.json", data |-> d] : d \in JsonObjects({s_heart, s_github}, FaInfos)}
    \cup {[format |-> "mapping.json", data |-> d] : d \in CodiconData}
    \cup {[format |-> "Phosphor.json", icons |-> i] : i \in FilesUpTo(PhosphorIcons, MaxIcons)}
    \cup {[format |-> "materialdesignicons.css", lines |-> f] : f \in FilesUpTo(MdiLines, MaxMdiLines)}
    \cup {[format |-> "remixicon.css", lines |-> f] : f \in FilesUpTo(RiLines, MaxRiLines)}

(***************************************************************************)
(* providers.py: process_mapping of every provider class.  A call returns  *)
(* Returned(table), the dict of icon name -> code-point string, or raises. *)
(***************************************************************************)
IndexError == "IndexError"

Returned(table) == [raised |-> FALSE, table |-> table]

\* d[key] = value
DictSet(d, key, value) == (key :> value) @@ d

\* {name: info["unicode"] for name, info in data.items() if style in info["styles"]}
FontAwesome_process_mapping(data, style) ==
    Returned([name \in {n \in DOMAIN data : style \in data[n].styles} |-> data[name].unicode])

\* {name.lower(): hex(code) for name, code in data.items()}
RECURSIVE CodiconsItems(_, _)
CodiconsItems(data, names) ==
    IF names = {} THEN <<>>
    ELSE LET name == CHOOSE n \in names : TRUE
         IN  DictSet(CodiconsItems(data, names \ {name}), Lower(name), hex(data[name]))

Codicons_process_mapping(data) == Returned(CodiconsItems(data, DOMAIN data))

\* {tag: hex(icon["grid"]) for icon in icons for tag in icon["tags"]}
RECURSIVE PhosphorTags(_, _, _)
PhosphorTags(table, icon, t) ==
    IF t > Len(icon.tags) THEN table
    ELSE PhosphorTags(DictSet(table, icon.tags[t], hex(icon.grid)), icon, t + 1)

RECURSIVE PhosphorItems(_, _, _)
PhosphorItems(table, icons, k) ==
    IF k > Len(icons) THEN table
    ELSE PhosphorItems(PhosphorTags(table, icons[k], 1), icons, k + 1)

Phosphor_process_mapping(icons) == Returned(PhosphorItems(<<>>, icons, 1))

\* lines.index(line), 1-based
ListIndex(lines, line) ==
    CHOOSE k \in 1..Len(lines) : lines[k] = line /\ \A j \in 1..(k - 1) : lines[j] # line

\* MaterialDesignProvider.process_mapping, the inner loop from i on
\* (for i in range(3)): what it found for the selector line `line`
RECURSIVE MdiLookAhead(_, _, _)
MdiLookAhead(lines, line, i) ==
    IF i >= 3 \/ i + 1 >= Len(lines)                         \* end of range, or break
    THEN [raised |-> FALSE, found |-> FALSE]
    ELSE LET at == ListIndex(lines, line) + i + 1
         IN  IF at > Len(lines)
             THEN Raise(IndexError)                          \* content.splitlines()[...]
             ELSE LET content_line == lines[at]
                  IN  IF /\ HasSub(content_line, <<"c", "o", "n", "t", "e", "n", "t", ":">>)
                         /\ HasSub(Upper(content_line), <<"\\", "F">>)
                      THEN LET parts == Split(Split(content_line, <<"c", "o", "n", "t", "e", "n", "t", ":">>)[2], <<"\"", "\\">>)
                           IN  IF Len(parts) < 2
                               THEN Raise(IndexError)        \* .split('"\\')[1]
                               ELSE [raised |-> FALSE, found |-> TRUE,
                                     value |-> <<"0", "x">>
                                               \o Lower(Split(parts[2], <<"\"">>)[1])]
                      ELSE MdiLookAhead(lines, line, i + 1)

\* MaterialDesignProvider.process_mapping, the outer loop from line k on
RECURSIVE MdiScan(_, _, _)
MdiScan(icons, lines, k) ==
    IF k > Len(lines) THEN Returned(icons)
    ELSE LET line == lines[k]
         IN  IF HasSub(line, <<".", "m", "d", "i", "-">>) /\ HasSub(line, <<":", "b", "e", "f", "o", "r", "e">>)
             THEN LET icon_name == Split(Split(line, <<".", "m", "d", "i", "-">>)[2], <<":", "b", "e", "f", "o", "r", "e">>)[1]
                      ahead == MdiLookAhead(lines, line, 0)
                  IN  IF ahead.raised THEN ahead
                      ELSE IF ahead.found
                      THEN MdiScan(DictSet(icons, icon_name, ahead.value), lines, k + 1)
                      ELSE MdiScan(icons, lines, k + 1)
             ELSE MdiScan(icons, lines, k + 1)

MaterialDesign_process_mapping(lines) == MdiScan(<<>>, lines, 1)

(***************************************************************************)
(* utils.py: extract_unicode_from_css with RemixProvider.CSS_PATTERN,      *)
(*     ^\.ri-(.+):before {\s*content: "(.+)";\s*}$      (re.MULTILINE)     *)
(***************************************************************************)
\* \s
IsSpace(c) == c \in {" ", "\n", "\t"}

\* \s* from i on: where it ends.  It is greedy, and what follows it in the
\* pattern is no whitespace, so it never gives a character back
RECURSIVE SkipSpace(_, _)
SkipSpace(s, i) == IF i <= Len(s) /\ IsSpace(s[i]) THEN SkipSpace(s, i + 1) ELSE i

\* ^ and $ under re.MULTILINE
AtLineStart(s, i) == i = 1 \/ s[i - 1] = "\n"

AtLineEnd(s, i) == i = Len(s) + 1 \/ s[i] = "\n"

\* the position after the last character of the line that position i is on
RECURSIVE LineStop(_, _)
LineStop(s, i) == IF i > Len(s) \/ s[i] = "\n" THEN i ELSE LineStop(s, i + 1)

\* the largest of a set of positions, 0 for none
LastOf(P) == IF P = {} THEN 0 ELSE CHOOSE p \in P : \A q \in P : q <= p

\* ";\s*}$ at f: the position after the match, 0 for no match
RiTail(s, f) ==
    IF LitAt(s, f, <<"\"", ";">>)
    THEN LET m == SkipSpace(s, f + 2)
         IN  IF m <= Len(s) /\ s[m] = "}" /\ AtLineEnd(s, m + 1) THEN m + 1 ELSE 0
    ELSE 0

\* (.+)";\s*}$ at k: the greedy group takes the most of its line that lets
\* the rest match; the position after the group, 0 for no match
RiKeyStop(s, k) == LastOf({f \in (k + 1)..LineStop(s, k) : RiTail(s, f) # 0})

\* :before {\s*content: "(.+)";\s*}$ at e: the position of the second group,
\* 0 for no match
RiRest(s, e) ==
    IF LitAt(s, e, <<":", "b", "e", "f", "o", "r", "e", " ", "{">>)
    THEN LET j == SkipSpace(s, e + 9)
         IN  IF LitAt(s, j, <<"c", "o", "n", "t", "e", "n", "t", ":", " ", "\"">>) /\ RiKeyStop(s, j + 10) # 0 THEN j + 10 ELSE 0
    ELSE 0

\* the whole pattern at p: no match, or the two groups and the position after
RiMatchAt(s, p) ==
    IF AtLineStart(s, p) /\ LitAt(s, p, <<".", "r", "i", "-">>)
    THEN LET e == LastOf({x \in (p + 5)..LineStop(s, p + 4) : RiRest(s, x) # 0})
         IN  IF e = 0 THEN [matched |-> FALSE]
             ELSE LET k == RiRest(s, e)
                      f == RiKeyStop(s, k)
                  IN  [matched |-> TRUE, name |-> SubSeq(s, p + 4, e - 1),
                       key |-> SubSeq(s, k, f - 1), stop |-> RiTail(s, f)]
    ELSE [matched |-> FALSE]

\* re.findall(pattern, content, re.MULTILINE) from p on: the pairs of groups
\* of the matches, left to right, none overlapping
RECURSIVE FindAll(_, _)
FindAll(s, p) ==
    IF p > Len(s) THEN <<>>
    ELSE LET m == RiMatchAt(s, p)
         IN  IF m.matched THEN <<[name |-> m.name, key |-> m.key]>> \o FindAll(s, m.stop)
             ELSE FindAll(s, p + 1)

\* mutant: "\F" is replaced by "0x", the f is lost
CssKey_DropsF(key) ==
    Replace(Lower(Replace(key, <<"\\", "F">>, <<"0", "x">>)), <<"\\">>, <<"0", "x">>)

\* key.replace("\\F", "0xf").lower(), then key.replace("\\", "0x")
CssKey(key) ==
    Replace(Lower(Replace(key, <<"\\", "F">>, <<"0", "x", "f">>)), <<"\\">>, <<"0", "x">>)

\* the loop over the matches, from match k on
RECURSIVE Charmap(_, _, _)
Charmap(charmap, matches, k) ==
    IF k > Len(matches) THEN charmap
    ELSE Charmap(DictSet(charmap, Lower(RStrip(matches[k].name, ":")), CssKey(matches[k].key)),
                 matches, k + 1)

extract_unicode_from_css(css_data) == Charmap(<<>>, FindAll(css_data, 1), 1)

\* RemixProvider.process_mapping
Remix_process_mapping(lines) == Returned(extract_unicode_from_css(JoinLines(lines)))

(***************************************************************************)
(* One call of process_mapping per behaviour, on one raw mapping           *)
(***************************************************************************)
Called_process_mapping(name, res) ==
    /\ mfn = "none"
    /\ mfn' = name
    /\ mres' = res
    /\ UNCHANGED mdata
    /\ UNCHANGED qvars
    /\ UNCHANGED rvars

FontAwesomeRegular ==
    /\ mdata.format = "icons.json"
    /\ Called_process_mapping(FontAwesomeRegularProvider.NAME,
                              FontAwesome_process_mapping(mdata.data, "regular"))

FontAwesomeSolid ==
    /\ mdata.format = "icons.json"
    /\ Called_process_mapping(FontAwesomeSolidProvider.NAME,
                              FontAwesome_process_mapping(mdata.data, "solid"))

FontAwesomeBrands ==
    /\ mdata.format = "icons.json"
    /\ Called_process_mapping(FontAwesomeBrandsProvider.NAME,
                              FontAwesome_process_mapping(mdata.data, "brands"))

MaterialDesign ==
    /\ mdata.format = "materialdesignicons.css"
    /\ Called_process_mapping(MaterialDesignProvider.NAME,
                              MaterialDesign_process_mapping(TextLines(mdata.lines)))

Codicons ==
    /\ mdata.format = "mapping.json"
    /\ Called_process_mapping(CodiconsProvider.NAME, Codicons_process_mapping(mdata.data))

Phosphor ==
    /\ mdata.format = "Phosphor.json"
    /\ Called_process_mapping(PhosphorProvider.NAME, Phosphor_process_mapping(mdata.icons))

Remix ==
    /\ mdata.format = "remixicon.css"
    /\ Called_process_mapping(RemixProvider.NAME,
                              Remix_process_mapping(TextLines(mdata.lines)))

MapInit ==
    /\ QInit
    /\ RInit
    /\ mfn = "none"
    /\ mdata \in MappingData
    /\ mres = [raised |-> FALSE, table |-> <<>>]

MapNext ==
    \/ FontAwesomeRegular
    \/ FontAwesomeSolid
    \/ FontAwesomeBrands
    \/ MaterialDesign
    \/ Codicons
    \/ Phosphor
    \/ Remix

MapSpec == MapInit /\ [][MapNext]_vars

(***************************************************************************)
(* Claims about the mapping parsers (MapSpec)                              *)
(***************************************************************************)
\* a process_mapping call has returned a table
MappingReturned == mfn # "none" /\ ~mres.raised

\* "0x" and then lowercase hex digits, one at least
Canonical(v) ==
    /\ Len(v) >= 3
    /\ v[1] = "0"
    /\ v[2] = "x"
    /\ \A i \in 3..Len(v) : \E j \in 1..16 : HexChars[j] = v[i]

\* C11 (the claim): every value of the table a process_mapping returns, of
\* whichever provider, is a canonical code-point string: "0x" followed by
\* lowercase hex digits.
C11_ValuesCanonical ==
    MappingReturned => \A n \in DOMAIN mres.table : Canonical(mres.table[n])

\* A key as the claim describes it: lowercase, without whitespace, and without
\* a leftover ":" at its end.
CleanKey(n) ==
    /\ n = Lower(n)
    /\ \A i \in 1..Len(n) : ~IsSpace(n[i])
    /\ Len(n) > 0 => n[Len(n)] # ":"

\* C12 (the claim): every key of the table a process_mapping returns, of
\* whichever provider, is a lowercase icon name with no whitespace and no
\* leftover punctuation such as a trailing ":".
C12_KeysClean ==
    MappingReturned => \A n \in DOMAIN mres.table : CleanKey(n)

\* The entries of the rules .ri-<name>:before { content: "\<hex>"; } of some
\* lines, a later rule of a name replacing an earlier one.
RECURSIVE RuleEntries(_, _, _)
RuleEntries(table, rules, k) ==
    IF k > Len(rules) THEN table
    ELSE RuleEntries(DictSet(table, rules[k].name, hex(rules[k].code)), rules, k + 1)

RECURSIVE RulesOf(_, _)
RulesOf(lines, k) ==
    IF k > Len(lines) THEN <<>> ELSE lines[k].rules \o RulesOf(lines, k + 1)

RemixFixture == <<RiRule(s_home_line, LowerEscape(60000), 60000)>>

\* C13 (the claim): RemixProvider.process_mapping maps every rule
\* .ri-<name>:before { content: "\<hex>"; } of its input to the entry
\* <name> -> "0x" + lowercase(<hex>) and produces no other entries; for the
\* fixture .ri-home-line:before { content: "\ea60"; } the result is exactly
\* {"home-line": "0xea60"}.
C13_RemixRulesExactly ==
    mfn = "remix" =>
        /\ mres = Returned(RuleEntries(<<>>, RulesOf(mdata.lines, 1), 1))
        /\ mdata.lines = RemixFixture =>
               mres.table = (s_home_line :> <<"0", "x", "e", "a", "6", "0">>)

\* The code points a raw mapping gives, in whichever encoding it writes them.
UpstreamCodes(d) ==
    CASE d.format = "icons.json" -> {HexNumber(d.data[n].unicode) : n \in DOMAIN d.data}
      [] d.format = "mapping.json" -> {d.data[n] : n \in DOMAIN d.data}
      [] d.format = "Phosphor.json" -> {d.icons[k].grid : k \in 1..Len(d.icons)}
      [] OTHER ->
            ({d.lines[i].code : i \in 1..Len(d.lines)}
             \cup UNION {{d.lines[i].rules[j].code : j \in 1..Len(d.lines[i].rules)} :
                         i \in 1..Len(d.lines)})
            \cap CodePoints

\* the parsers that turn a CSS escape or a JSON number into a string
Converting ==
    {MaterialDesignProvider.NAME, CodiconsProvider.NAME, PhosphorProvider.NAME,
     RemixProvider.NAME}

s_0xf004 == <<"0", "x", "f", "0", "0", "4">>

\* C14 (the claim): the same code point in different upstream encodings
\* parses to the same code-point string: the CSS escape "\F004" through
\* extract_unicode_from_css and the number 61444 through
\* CodiconsProvider.process_mapping both give "0xf004", every value parsed
\* from a CSS escape or a number is hex() of an upstream code point, and
\* decoding any parsed value as a hex integer gives back an upstream code
\* point of the raw mapping.
C14_RoundTrip ==
    MappingReturned =>
        /\ \A n \in DOMAIN mres.table : int16(mres.table[n]) \in UpstreamCodes(mdata)
        /\ mfn \in Converting =>
               \A n \in DOMAIN mres.table : \E c \in UpstreamCodes(mdata) : mres.table[n] = hex(c)
        /\ (mfn = RemixProvider.NAME /\ mdata.lines = <<RiRule(s_a, UpperEscape(61444), 61444)>>)
               => mres.table = (s_a :> s_0xf004)
        /\ (mfn = CodiconsProvider.NAME /\ mdata.data = (s_home :> 61444))
               => mres.table = (s_home :> s_0xf004)

C14_Witness ==
    /\ mfn = RemixProvider.NAME
    /\ mdata.lines = <<RiRule(s_a, UpperEscape(61444), 61444)>>
    /\ mres = Returned(s_a :> s_0xf004)

\* the key MaterialDesignProvider.process_mapping files a selector line under
MdiKey(line) ==
    Split(Split(line.text, <<".", "m", "d", "i", "-">>)[2], <<":", "b", "e", "f", "o", "r", "e">>)[1]

\* a well-formed rule of materialdesignicons.css starts at line k: a selector
\* line with its double-quoted content line next
WellFormedMdiAt(lines, k) ==
    /\ k + 1 <= Len(lines)
    /\ lines[k].kind = "selector"
    /\ lines[k + 1].kind = "content"

\* the table holds an entry for each well-formed rule of the stylesheet
MdiEntriesKept(lines, table) ==
    \A k \in 1..Len(lines) :
        WellFormedMdiAt(lines, k) =>
            /\ MdiKey(lines[k]) \in DOMAIN table
            /\ \E j \in 1..Len(lines) :
                   /\ WellFormedMdiAt(lines, j)
                   /\ MdiKey(lines[j]) = MdiKey(lines[k])
                   /\ table[MdiKey(lines[k])] = hex(lines[j + 1].code)

RiEntriesKept(lines, table) ==
    \A k \in 1..Len(lines) :
        lines[k].kind = "rule" =>
            /\ lines[k].name \in DOMAIN table
            /\ \E j \in 1..Len(lines) :
                   /\ lines[j].kind = "rule"
                   /\ lines[j].name = lines[k].name
                   /\ table[lines[k].name] = hex(lines[j].code)

\* C15 (the claim): a malformed rule never aborts the parse: whatever
\* malformed rules the stylesheet holds beside its well-formed ones (a
\* selector with no content line after it, a selector on one of the last
\* lines, a content line whose escape is not in double quotes),
\* MaterialDesignProvider.process_mapping and extract_unicode_from_css return
\* without raising, and the table holds the entries of all well-formed rules.
C15_MalformedRuleSkipped ==
    /\ mfn = MaterialDesignProvider.NAME =>
           ~mres.raised /\ MdiEntriesKept(mdata.lines, mres.table)
    /\ mfn = RemixProvider.NAME =>
           ~mres.raised /\ RiEntriesKept(mdata.lines, mres.table)

(***************************************************************************)
(* Claims about the provider table (Spec)                                  *)
(***************************************************************************)
\* the providers a prefix selects
WithPrefix(prefix) == {p \in PROVIDERS : p.PREFIX = prefix}

\* C16 (the claim): no two providers registered in PROVIDERS have the same
\* PREFIX, and none the same NAME, so a lookup by prefix selects at most one
\* provider: the provider a resolution works with is the only one that has
\* the prefix of its identifier.
C16_PrefixesUnique ==
    /\ \A p, q \in PROVIDERS : (p.PREFIX = q.PREFIX \/ p.NAME = q.NAME) => p = q
    /\ \A prefix \in {SplitOnce(i, ".")[1] : i \in IconIds} : Cardinality(WithPrefix(prefix)) <= 1
    /\ \A r \in Procs :
           loc[r].provider # "none" =>
               WithPrefix(SplitOnce(loc[r].icon_id, ".")[1]) = {ByName(loc[r].provider)}

C16_Witness ==
    \E r \in Procs :
        /\ pc[r] = "done"
        /\ result[r].ok
        /\ loc[r].provider = FontAwesomeRegularProvider.NAME
        /\ SplitOnce(loc[r].icon_id, ".")[1] = FontAwesomeRegularProvider.PREFIX

(***************************************************************************)
(* Claims about the Material Design parser (MapSpec)                       *)
(***************************************************************************)
\* a line that carries  content: "\F..."
CarriesContent(line) == line.code # 0

\* the lines among the up-to-three that follow line k which carry a content
AheadOf(lines, k) ==
    {j \in (k + 1)..(k + 3) : j <= Len(lines) /\ CarriesContent(lines[j])}

Least(S) == CHOOSE j \in S : \A i \in S : j <= i

\* the table the claim describes, built from line k on: each selector line
\* with the first content among the three lines after this very line, a rule
\* on a single line with its own content
RECURSIVE OwnContent(_, _, _)
OwnContent(table, lines, k) ==
    IF k > Len(lines) THEN table
    ELSE IF lines[k].kind = "rule"
    THEN OwnContent(DictSet(table, MdiKey(lines[k]), hex(lines[k].code)), lines, k + 1)
    ELSE IF lines[k].kind = "selector" /\ AheadOf(lines, k) # {}
    THEN OwnContent(DictSet(table, MdiKey(lines[k]), hex(lines[Least(AheadOf(lines, k))].code)),
                    lines, k + 1)
    ELSE OwnContent(table, lines, k + 1)

\* C17 (the claim): MaterialDesignProvider.process_mapping pairs each selector
\* with its own content: the name of every line containing .mdi-<name>:before
\* is mapped to "0x" + the lowercase hex of the first content line with a \F
\* escape among the up-to-three lines that follow that very occurrence of the
\* line, never those that follow an earlier, textually identical line, and a
\* rule written on a single line is extracted as well.
C17_SelectorOwnContent ==
    (mfn = MaterialDesignProvider.NAME /\ ~mres.raised) =>
        mres.table = OwnContent(<<>>, mdata.lines, 1)

====
